---- MODULE Spec2Model ----
(***************************************************************************)
(* Model of app2.py, the Streamlit "Excel Analyzer with ChatGPT" script.   *)
(*                                                                         *)
(* The script is re-executed top to bottom after every user interaction.   *)
(* pc is the script's position; "idle" means no run is in progress and the *)
(* page rendered by the last run is waiting for the user.                  *)
(*                                                                         *)
(* Text is a sequence of symbols.  A symbol is either one character that   *)
(* matters to the code ("," "\"" "\n" " ") or an opaque run of other       *)
(* characters ("Data:", "Summary text.").                                  *)
(***************************************************************************)
EXTENDS Integers, Sequences, FiniteSets, TLC

VARIABLES
    OpenAIError,    \* the class bound to the name OpenAIError (lines 15-18)
    keyFile,        \* api_key.txt on disk
    api_key,        \* openai.api_key
    uploaded_file,  \* value of st.file_uploader
    questions,      \* value of the st.text_area
    button,         \* value st.button returns in the current run
    pc,             \* position of the script
    df,             \* DataFrame read in the current run
    df_sampled,     \* DataFrame passed to to_csv in the current run
    prompt,         \* prompt built in the current run
    response,       \* what openai.ChatCompletion.create did in the current run
    findings,       \* text displayed under "Findings"
    raised,         \* exception raised in the current run
    ui,             \* elements rendered by the current run
    log,            \* records logged by the current run
    requests,       \* completion requests issued by the current run
    shown,          \* input widgets rendered by the current run
    hadParseError,  \* history: an upload of this session failed to parse
    prevFailed      \* history: an analyze of the current upload failed

vars == <<OpenAIError, keyFile, api_key, uploaded_file, questions, button, pc,
          df, df_sampled, prompt, response, findings, raised, ui, log,
          requests, shown, hadParseError, prevFailed>>

\* ---------------------------------------------------------------- bounds
MaxSmallRows == 1
ExampleRows == 10
MaxExtraRows == 1
MaxStart == 1
MaxChoices == 2

\* ------------------------------------------------------------- constants
SampleCap == 500

\* ------------------------------------------------------------ Python None
None == <<>>
Some(v) == <<v>>
Val(o) == o[1]

\* ------------------------------------------------------------------ text
NL == "\n"
QUOTE == "\""
COMMA == ","
Whitespace == {" ", "\n", "\t", "\r"}

SetMin(S) == CHOOSE x \in S : \A y \in S : x <= y
SetMax(S) == CHOOSE x \in S : \A y \in S : x >= y

\* str.strip(): drop leading and trailing whitespace
Strip(s) ==
    LET keep == {i \in 1..Len(s) : s[i] \notin Whitespace}
    IN  IF keep = {} THEN <<>> ELSE SubSeq(s, SetMin(keep), SetMax(keep))

\* concatenation of the texts parts[lo..hi]
RECURSIVE Concat(_, _, _)
Concat(parts, lo, hi) ==
    IF lo > hi THEN <<>>
    ELSE IF lo = hi THEN parts[lo]
    ELSE LET mid == (lo + hi) \div 2
         IN  Concat(parts, lo, mid) \o Concat(parts, mid + 1, hi)

\* ------------------------------------------------------------- DataFrame
\* A DataFrame: column names, index labels, and one tuple of cells per row.
Frame(columns, index, rows) == [columns |-> columns, index |-> index, rows |-> rows]
NRows(frame) == Len(frame.rows)

\* ---------------------------------------------------------- uploaded files
CellValues == << <<"1">>, <<"a", COMMA, "b">>, <<"q", QUOTE>>, <<"x", NL, "y">> >>
CellAt(i) == CellValues[(i % Len(CellValues)) + 1]
SheetColumns == << <<"k">>, <<"v">> >>
SheetRow(i) == << CellAt(i), CellAt(i + 1) >>

RowCounts == (0..MaxSmallRows) \cup {ExampleRows} \cup (SampleCap..(SampleCap + MaxExtraRows))
Workbook(n) == [kind |-> "workbook", header |-> SheetColumns,
                cells |-> [i \in 1..n |-> SheetRow(i)]]
CorruptFile == [kind |-> "corrupt", header |-> <<>>, cells |-> <<>>]
Files == {CorruptFile} \cup {Workbook(n) : n \in RowCounts}

\* pd.read_excel: first sheet row is the header, the rest get a RangeIndex
CanReadExcel(file) == file.kind = "workbook"
ReadExcel(file) ==
    Frame(file.header, [i \in 1..Len(file.cells) |-> i - 1], file.cells)

\* --------------------------------------------------------------- sampling
\* len(df) > 500
NeedsSamplingOffByOne(frame) == NRows(frame) >= SampleCap
NeedsSampling(frame) == NRows(frame) > SampleCap

\* df.sample(n): the first n positions of a permutation of the rows.  The
\* permutations explored walk the rows cyclically from a start position,
\* upwards or downwards.
SampleChoices == (0..MaxStart) \X {"up", "down"}
PermPos(N, choice, k) ==
    LET step == IF choice[2] = "up" THEN 1 ELSE N - 1
    IN  ((choice[1] + step * (k - 1)) % N) + 1
DfSampleWithReplacement(frame, n, choice) ==
    LET pos(k) == PermPos(n - 1, choice, k)
    IN  Frame(frame.columns, [k \in 1..n |-> frame.index[pos(k)]],
              [k \in 1..n |-> frame.rows[pos(k)]])
DfSample(frame, n, choice) ==
    LET pos(k) == PermPos(NRows(frame), choice, k)
    IN  Frame(frame.columns, [k \in 1..n |-> frame.index[pos(k)]],
              [k \in 1..n |-> frame.rows[pos(k)]])

\* ---------------------------------------------------------- serialization
\* csv field: quoted when it holds the delimiter, a quote or a line break;
\* embedded quotes are doubled
NeedsQuoting(cell) == \E i \in 1..Len(cell) : cell[i] \in {COMMA, QUOTE, NL, "\r"}
CsvField(cell) ==
    IF NeedsQuoting(cell)
    THEN <<QUOTE>>
         \o Concat([i \in 1..Len(cell) |->
                       IF cell[i] = QUOTE THEN <<QUOTE, QUOTE>> ELSE <<cell[i]>>],
                   1, Len(cell))
         \o <<QUOTE>>
    ELSE cell
CsvLine(cells) ==
    Concat([i \in 1..Len(cells) |->
               IF i = 1 THEN CsvField(cells[i]) ELSE <<COMMA>> \o CsvField(cells[i])],
           1, Len(cells))
    \o <<NL>>
\* df.to_csv(index=False): header line, then one line per row
ToCsv(frame) ==
    CsvLine(frame.columns)
    \o Concat([k \in 1..NRows(frame) |-> CsvLine(frame.rows[k])], 1, NRows(frame))

\* ------------------------------------------------------------------ prompt
Preamble == <<"You are an analytical assistant. Based on the following data and questions, provide comprehensive findings.", NL, NL>>
DataLabel == <<"Data:", NL>>
QuestionsLabel == <<"Questions:", NL>>
Trailer == <<"Findings:">>
BuildPromptQuestionsStripped(csv_string, qs) ==
    Preamble \o DataLabel \o csv_string \o <<NL, NL>>
    \o QuestionsLabel \o Strip(qs) \o <<NL, NL>> \o Trailer
BuildPrompt(csv_string, qs) ==
    Preamble \o DataLabel \o csv_string \o <<NL, NL>>
    \o QuestionsLabel \o qs \o <<NL, NL>> \o Trailer

DefaultQuestions == <<"1. Provide a summary of the data.", NL,
                      "2. Identify any trends or patterns.", NL,
                      "3. Highlight any anomalies.">>
QuestionTexts == {DefaultQuestions, <<" ", "Summarize.", NL>>}

\* -------------------------------------------------------------- exceptions
Exc(cls, origin, detail) == [cls |-> cls, origin |-> origin, detail |-> detail]
\* isinstance(e, C) for the classes the handlers name
IsInstance(e, C) == C = "Exception" \/ e.cls = C

\* ------------------------------------------------------- remote completion
ResponseTexts == {<<"X">>, <<" ", "Summary text.", NL>>, <<NL, " ">>}
ErrorDetails == {<<"Incorrect API key provided">>, <<"Rate limit reached">>}
RECURSIVE SeqsUpTo(_, _)
SeqsUpTo(S, n) ==
    IF n = 0 THEN {<<>>}
    ELSE LET shorter == SeqsUpTo(S, n - 1)
         IN  shorter \cup {Append(s, x) : s \in {t \in shorter : Len(t) = n - 1}, x \in S}
Responses ==
    {[kind |-> "error", detail |-> d, choices |-> <<>>] : d \in ErrorDetails}
    \cup {[kind |-> "no_choices_key", detail |-> <<>>, choices |-> <<>>]}
    \cup {[kind |-> "choices", detail |-> <<>>, choices |-> c] :
             c \in SeqsUpTo(ResponseTexts, MaxChoices)}

\* response['choices'][0]['message']['content'].strip()
ParseRaises(resp) == resp.kind = "no_choices_key" \/ Len(resp.choices) = 0
ParseException(resp) ==
    IF resp.kind = "no_choices_key"
    THEN Exc("KeyError", "local", <<"'choices'">>)
    ELSE Exc("IndexError", "local", <<"list index out of range">>)
ParseResponseLastChoice(resp) == Strip(resp.choices[Len(resp.choices)])
ParseResponse(resp) == Strip(resp.choices[1])

\* which except clause of lines 119-128 handles an exception raised inside
\* the inner try
AnalyzeHandlerNoGeneric(e, openAIErrorCls) ==
    IF IsInstance(e, openAIErrorCls) THEN "openai_error" ELSE "excel_error"
AnalyzeHandler(e, openAIErrorCls) ==
    IF IsInstance(e, openAIErrorCls) THEN "openai_error"
    ELSE IF IsInstance(e, "Exception") THEN "unexpected_error"
    ELSE "excel_error"

\* logger.error(...) and st.error(...) of one handler
Msg(kind, tag, detail) == [kind |-> kind, tag |-> tag, detail |-> detail]
ReportSilent(tag, e) == [log |-> {}, ui |-> {Msg("error", tag, e.detail)}]
Report(tag, e) == [log |-> {Msg("error", tag, e.detail)},
                   ui |-> {Msg("error", tag, e.detail)}]

\* ------------------------------------------------------------ environment
KeyFiles == {[kind |-> "missing", text |-> <<>>],
             [kind |-> "unreadable", text |-> <<>>],
             [kind |-> "ok", text |-> <<" ", "sk-secret", NL>>]}

Init ==
    /\ OpenAIError \in {"OpenAIError", "Exception"}
    /\ keyFile \in KeyFiles
    /\ api_key = None
    /\ uploaded_file = None
    /\ questions = DefaultQuestions
    /\ button = FALSE
    /\ pc = "load_api_key"
    /\ df = None
    /\ df_sampled = None
    /\ prompt = None
    /\ response = None
    /\ findings = None
    /\ raised = None
    /\ ui = {}
    /\ log = {}
    /\ requests = 0
    /\ shown = {}
    /\ hadParseError = FALSE
    /\ prevFailed = FALSE

\* ------------------------------------------------------------ script steps
\* a new execution of the script: nothing of the previous run's page or
\* locals is kept
StartRun ==
    /\ pc' = "load_api_key"
    /\ df' = None
    /\ df_sampled' = None
    /\ prompt' = None
    /\ response' = None
    /\ findings' = None
    /\ raised' = None
    /\ ui' = {}
    /\ log' = {}
    /\ requests' = 0
    /\ shown' = {}

KeyErrorTag == IF keyFile.kind = "missing" THEN "key_not_found" ELSE "key_read_error"

\* load_api_key without the st.stop() calls: the function returns None
LoadApiKeyNoStop ==
    /\ pc = "load_api_key"
    /\ IF keyFile.kind = "ok"
       THEN /\ api_key' = Some(Strip(keyFile.text))
            /\ ui' = ui
       ELSE /\ api_key' = None
            /\ ui' = ui \cup {Msg("error", KeyErrorTag, <<>>)}
    /\ pc' = "file_uploader"
    /\ UNCHANGED <<OpenAIError, keyFile, uploaded_file, questions, button, df,
                   df_sampled, prompt, response, findings, raised, log,
                   requests, shown, hadParseError, prevFailed>>

\* lines 21-37
LoadApiKey ==
    /\ pc = "load_api_key"
    /\ IF keyFile.kind = "ok"
       THEN /\ api_key' = Some(Strip(keyFile.text))
            /\ ui' = ui
            /\ pc' = "file_uploader"
       ELSE /\ api_key' = api_key
            /\ ui' = ui \cup {Msg("error", KeyErrorTag, <<>>)}
            /\ pc' = "idle"
    /\ UNCHANGED <<OpenAIError, keyFile, uploaded_file, questions, button, df,
                   df_sampled, prompt, response, findings, raised, log,
                   requests, shown, hadParseError, prevFailed>>

\* lines 57-63 and 129-130
FileUploader ==
    /\ pc = "file_uploader"
    /\ shown' = shown \cup {"file_uploader"}
    /\ IF uploaded_file = None
       THEN /\ ui' = ui \cup {Msg("info", "awaiting_upload", <<>>)}
            /\ pc' = "idle"
       ELSE /\ ui' = ui
            /\ pc' = "read_excel"
    /\ UNCHANGED <<OpenAIError, keyFile, api_key, uploaded_file, questions,
                   button, df, df_sampled, prompt, response, findings, raised,
                   log, requests, hadParseError, prevFailed>>

ExcelError == Exc("ValueError", "local", <<"Excel file format cannot be determined">>)

\* lines 64-79 and 126-128
ReadExcelStep ==
    /\ pc = "read_excel"
    /\ IF CanReadExcel(Val(uploaded_file))
       THEN /\ df' = Some(ReadExcel(Val(uploaded_file)))
            /\ ui' = ui \cup {Msg("success", "read_ok", <<>>)}
            /\ shown' = shown \cup {"text_area", "button"}
            /\ pc' = IF button THEN "sampling" ELSE "idle"
            /\ UNCHANGED <<raised, log, hadParseError>>
       ELSE /\ raised' = Some(ExcelError)
            /\ log' = log \cup Report("excel_error", ExcelError).log
            /\ ui' = ui \cup Report("excel_error", ExcelError).ui
            /\ hadParseError' = TRUE
            /\ pc' = "idle"
            /\ UNCHANGED <<df, shown>>
    /\ UNCHANGED <<OpenAIError, keyFile, api_key, uploaded_file, questions,
                   button, df_sampled, prompt, response, findings, requests,
                   prevFailed>>

\* lines 82-87
SampleStep ==
    /\ pc = "sampling"
    /\ IF NeedsSampling(Val(df))
       THEN /\ \E choice \in SampleChoices :
                  df_sampled' = Some(DfSample(Val(df), SampleCap, choice))
            /\ ui' = ui \cup {Msg("warning", "sampled", <<>>)}
       ELSE /\ df_sampled' = df
            /\ ui' = ui
    /\ pc' = "building"
    /\ UNCHANGED <<OpenAIError, keyFile, api_key, uploaded_file, questions,
                   button, df, prompt, response, findings, raised, log,
                   requests, shown, hadParseError, prevFailed>>

\* lines 89-111: serialize, build the prompt, send the request
BuildStep ==
    /\ pc = "building"
    /\ prompt' = Some(BuildPrompt(ToCsv(Val(df_sampled)), questions))
    /\ requests' = requests + 1
    /\ pc' = "awaiting"
    /\ UNCHANGED <<OpenAIError, keyFile, api_key, uploaded_file, questions,
                   button, df, df_sampled, response, findings, raised, ui, log,
                   shown, hadParseError, prevFailed>>

\* the exception, if any, that lines 103-114 raise on a response
CompletionFails(resp) == resp.kind = "error" \/ ParseRaises(resp)
CompletionException(resp) ==
    IF resp.kind = "error" THEN Exc("OpenAIError", "remote", resp.detail)
    ELSE ParseException(resp)

\* the remote call ends, then a handler that sends the request again
CompleteRetry ==
    /\ pc = "awaiting"
    /\ \E resp \in Responses :
          /\ response' = Some(resp)
          /\ IF CompletionFails(resp)
             THEN /\ requests' = requests + 1
                  /\ pc' = "awaiting"
                  /\ UNCHANGED <<findings, ui>>
             ELSE /\ findings' = Some(ParseResponse(resp))
                  /\ ui' = ui \cup {Msg("header", "findings", <<>>),
                                    Msg("write", "findings", ParseResponse(resp))}
                  /\ pc' = "success"
                  /\ UNCHANGED requests
    /\ UNCHANGED <<OpenAIError, keyFile, api_key, uploaded_file, questions,
                   button, df, df_sampled, prompt, raised, log, shown,
                   hadParseError, prevFailed>>

\* lines 103-124: the remote call ends; the response is parsed and shown, or
\* an except clause reports the failure
Complete ==
    /\ pc = "awaiting"
    /\ \E resp \in Responses :
          /\ response' = Some(resp)
          /\ IF CompletionFails(resp)
             THEN LET e == CompletionException(resp)
                      rep == Report(AnalyzeHandler(e, OpenAIError), e)
                  IN  /\ raised' = Some(e)
                      /\ log' = log \cup rep.log
                      /\ ui' = ui \cup rep.ui
                      /\ prevFailed' = TRUE
                      /\ pc' = "failed"
                      /\ UNCHANGED findings
             ELSE /\ findings' = Some(ParseResponse(resp))
                  /\ ui' = ui \cup {Msg("header", "findings", <<>>),
                                    Msg("write", "findings", ParseResponse(resp))}
                  /\ pc' = "success"
                  /\ UNCHANGED <<raised, log, prevFailed>>
    /\ UNCHANGED <<OpenAIError, keyFile, api_key, uploaded_file, questions,
                   button, df, df_sampled, prompt, requests, shown,
                   hadParseError>>

\* lines 132-141: the footer ends the run
Finish ==
    /\ pc \in {"success", "failed"}
    /\ pc' = "idle"
    /\ UNCHANGED <<OpenAIError, keyFile, api_key, uploaded_file, questions,
                   button, df, df_sampled, prompt, response, findings, raised,
                   ui, log, requests, shown, hadParseError, prevFailed>>

\* ------------------------------------------------------------ user actions
\* Each interaction with a rendered widget reruns the script.
Upload ==
    /\ pc = "idle"
    /\ "file_uploader" \in shown
    /\ \E f \in Files :
          /\ Some(f) # uploaded_file
          /\ uploaded_file' = Some(f)
    /\ button' = FALSE
    /\ prevFailed' = FALSE
    /\ StartRun
    /\ UNCHANGED <<OpenAIError, keyFile, api_key, questions, hadParseError>>

RemoveFile ==
    /\ pc = "idle"
    /\ "file_uploader" \in shown
    /\ uploaded_file # None
    /\ uploaded_file' = None
    /\ button' = FALSE
    /\ prevFailed' = FALSE
    /\ StartRun
    /\ UNCHANGED <<OpenAIError, keyFile, api_key, questions, hadParseError>>

EditQuestions ==
    /\ pc = "idle"
    /\ "text_area" \in shown
    /\ \E q \in QuestionTexts :
          /\ q # questions
          /\ questions' = q
    /\ button' = FALSE
    /\ StartRun
    /\ UNCHANGED <<OpenAIError, keyFile, api_key, uploaded_file, hadParseError,
                   prevFailed>>

ClickAnalyze ==
    /\ pc = "idle"
    /\ "button" \in shown
    /\ button' = TRUE
    /\ StartRun
    /\ UNCHANGED <<OpenAIError, keyFile, api_key, uploaded_file, questions,
                   hadParseError, prevFailed>>

Next ==
    \/ LoadApiKey
    \/ FileUploader
    \/ ReadExcelStep
    \/ SampleStep
    \/ BuildStep
    \/ Complete
    \/ Finish
    \/ Upload
    \/ RemoveFile
    \/ EditQuestions
    \/ ClickAnalyze

Spec == Init /\ [][Next]_vars

\* ================================================================== claims
\* helpers of the claims (they model no code)
Shown(kind, tag) == \E m \in ui : m.kind = kind /\ m.tag = tag
Logged(tag) == \E m \in log : m.tag = tag
Sampled == df_sampled # None
SourceRows == Val(uploaded_file).cells
Stage ==
    CASE pc = "sampling" -> "Sampling"
      [] pc = "building" -> "Building"
      [] pc = "awaiting" -> "AwaitingCompletion"
      [] pc = "success" -> "Success"
      [] pc = "failed" -> "Failed"
      [] OTHER -> "Idle"
\* t is s without its leading and trailing whitespace
IsTrimOf(t, s) ==
    /\ \E i \in 0..Len(s) :
          /\ i + Len(t) <= Len(s)
          /\ SubSeq(s, i + 1, i + Len(t)) = t
          /\ \A k \in 1..i : s[k] \in Whitespace
          /\ \A k \in (i + Len(t) + 1)..Len(s) : s[k] \in Whitespace
    /\ t # <<>> => (t[1] \notin Whitespace /\ t[Len(t)] \notin Whitespace)

\* C1: whenever the sampling step has run on a table of at most 500 rows
\* (0, 500 included), the sample is the table itself, with the rows and the
\* row count of the uploaded sheet, and no sampling warning is on the page;
\* a 10-row table whose completion returns "Summary text." displays exactly
\* that text.
C1_SmallTableUnchanged ==
    (Sampled /\ NRows(Val(df)) <= SampleCap) =>
        /\ df_sampled = df
        /\ Val(df_sampled).rows = SourceRows
        /\ NRows(Val(df_sampled)) = Len(SourceRows)
        /\ ~Shown("warning", "sampled")
        /\ (/\ pc = "success"
            /\ NRows(Val(df)) = ExampleRows
            /\ Val(response).choices[1] = <<" ", "Summary text.", NL>>)
           => (/\ findings = Some(<<"Summary text.">>)
               /\ Msg("write", "findings", <<"Summary text.">>) \in ui)
C1_Witness ==
    /\ pc = "success"
    /\ NRows(Val(df)) = SampleCap
    /\ df_sampled = df
    /\ ~Shown("warning", "sampled")

\* C2: right after the sampling step has run on a table of more than 500
\* rows, the sample has exactly 500 rows, no source row occurs in it twice, every
\* sampled row is the source row of the same index label with the same cells,
\* and the sampling warning is on the page, for every choice of rows.
C2_LargeTableSampled ==
    (pc = "building" /\ NRows(Val(df)) > SampleCap) =>
        LET s == Val(df_sampled)
            d == Val(df)
        IN  /\ Sampled
            /\ NRows(s) = SampleCap
            /\ Len(s.index) = SampleCap
            /\ Cardinality({s.index[k] : k \in 1..Len(s.index)}) = SampleCap
            /\ s.columns = d.columns
            /\ \A k \in 1..NRows(s) :
                  /\ s.index[k] \in 0..(NRows(d) - 1)
                  /\ d.index[s.index[k] + 1] = s.index[k]
                  /\ d.rows[s.index[k] + 1] = s.rows[k]
                  /\ SourceRows[s.index[k] + 1] = s.rows[k]
            /\ Shown("warning", "sampled")
C2_Witness ==
    /\ pc = "building"
    /\ NRows(Val(df)) > SampleCap
    /\ Val(df_sampled).index[1] > Val(df_sampled).index[2]

CredentialLoadFailed == keyFile.kind # "ok" /\ pc # "load_api_key"

\* C3: once loading the credential has failed (file missing or unreadable),
\* the user has been told, the run is over, no later stage has run (no
\* uploader, no parse, no sample, no prompt, no request), no credential is
\* set, and nothing more can happen.
C3_CredentialFailureHalts ==
    CredentialLoadFailed =>
        /\ Shown("error", KeyErrorTag)
        /\ pc = "idle"
        /\ shown = {}
        /\ api_key = None
        /\ df = None
        /\ df_sampled = None
        /\ prompt = None
        /\ response = None
        /\ requests = 0
        /\ ~ENABLED Next
C3_Witness ==
    /\ keyFile.kind = "missing"
    /\ pc = "idle"
    /\ Shown("error", "key_not_found")

\* C4: the prompt every request is sent with is, in this order, the preamble, "Data:", the
\* header line, one line per selected row in sample order, a blank gap,
\* "Questions:", the questions text verbatim, a blank gap and "Findings:" at
\* the very end.
C4_PromptLayout ==
    pc = "awaiting" =>
        LET p == Val(prompt)
            s == Val(df_sampled)
            header == CsvLine(s.columns)
            rowLines == Concat([k \in 1..NRows(s) |-> CsvLine(s.rows[k])], 1, NRows(s))
            tail == <<NL, NL>> \o QuestionsLabel \o questions \o <<NL, NL>> \o Trailer
            headerAt == Len(Preamble) + Len(DataLabel) + 1
            rowsAt == headerAt + Len(header)
            tailAt == rowsAt + Len(rowLines)
        IN  /\ SubSeq(p, 1, Len(Preamble)) = Preamble
            /\ SubSeq(p, Len(Preamble) + 1, headerAt - 1) = DataLabel
            /\ SubSeq(p, headerAt, rowsAt - 1) = header
            /\ SubSeq(p, rowsAt, tailAt - 1) = rowLines
            /\ SubSeq(p, tailAt, Len(p)) = tail
            /\ Len(p) = tailAt + Len(tail) - 1
            /\ p[Len(p)] = "Findings:"
C4_Witness ==
    /\ pc = "awaiting"
    /\ NRows(Val(df)) > SampleCap
    /\ questions = <<" ", "Summarize.", NL>>

\* C5: whenever the service returned at least one choice, the run succeeded:
\* no exception, no error message, and the findings shown are the first
\* choice's text without its surrounding whitespace, whatever the later
\* choices are.
C5_FirstChoiceTrimmed ==
    (response # None /\ Val(response).kind = "choices"
        /\ Len(Val(response).choices) >= 1) =>
        /\ pc \in {"success", "idle"}
        /\ raised = None
        /\ ~\E m \in ui : m.kind = "error"
        /\ findings # None
        /\ IsTrimOf(Val(findings), Val(response).choices[1])
        /\ Msg("write", "findings", Val(findings)) \in ui
C5_Witness ==
    /\ pc = "success"
    /\ Val(response).choices = << <<" ", "Summary text.", NL>>, <<"X">> >>
    /\ findings = Some(<<"Summary text.">>)

\* C6: whenever the service returned without error but with zero choices,
\* the failure is reported and logged as an unexpected error, never as an
\* OpenAI API error, and no findings are shown.
C6_EmptyResponseIsUnexpected ==
    (response # None /\ Val(response).kind = "choices"
        /\ Len(Val(response).choices) = 0) =>
        /\ Shown("error", "unexpected_error")
        /\ Logged("unexpected_error")
        /\ ~Shown("error", "openai_error")
        /\ ~Logged("openai_error")
        /\ findings = None

\* C7: every failure of an analyze action is reported in exactly one
\* category: a failure of the remote call as an OpenAI API error with the
\* remote detail logged, any other exception as an unexpected error and
\* never as an OpenAI API error, whatever class the name OpenAIError is
\* bound to.
C7_FailureClassification ==
    (response # None /\ raised # None) =>
        LET e == Val(raised)
        IN  /\ e.origin = "remote" =>
                  /\ Msg("error", "openai_error", e.detail) \in log
                  /\ Shown("error", "openai_error")
                  /\ ~Shown("error", "unexpected_error")
                  /\ ~Logged("unexpected_error")
            /\ e.origin = "local" =>
                  /\ Msg("error", "unexpected_error", e.detail) \in log
                  /\ Shown("error", "unexpected_error")
                  /\ ~Shown("error", "openai_error")
                  /\ ~Logged("openai_error")

StageMoves ==
    {<<"Idle", "Idle">>, <<"Idle", "Sampling">>, <<"Sampling", "Building">>,
     <<"Building", "AwaitingCompletion">>, <<"AwaitingCompletion", "Success">>,
     <<"AwaitingCompletion", "Failed">>, <<"Success", "Idle">>, <<"Failed", "Idle">>}
StageStep ==
    /\ <<Stage, Stage'>> \in StageMoves
    /\ requests' <= 1
    /\ requests' > requests =>
          /\ Stage = "Building"
          /\ Stage' = "AwaitingCompletion"
          /\ prompt' # None
    /\ (prompt' # prompt /\ prompt' # None) =>
          /\ Stage = "Building"
          /\ df_sampled # None
    /\ (df_sampled' # df_sampled /\ df_sampled' # None) => Stage = "Sampling"
    /\ Stage = "AwaitingCompletion" => (button' = button /\ requests' = requests)
    /\ Stage = "Failed" => (Stage' = "Idle" /\ requests' = requests)

\* C8: every step moves the analysis along Idle -> Sampling -> Building ->
\* AwaitingCompletion -> {Success, Failed} -> Idle; a prompt is built only
\* in Building from a sample, a request is sent only on leaving Building
\* with a prompt, a run sends at most one request, Failed only returns to
\* Idle without another request, and nothing starts a new analyze while one
\* awaits its completion.
C8_StageOrder == [][StageStep]_vars
C8_Witness ==
    /\ pc = "idle"
    /\ requests = 1
    /\ raised # None
    /\ prompt # None

NonFatalTags == {"excel_error", "openai_error", "unexpected_error"}
ErrorsReported ==
    /\ raised # None =>
          \E tag \in NonFatalTags :
              /\ Msg("error", tag, Val(raised).detail) \in log
              /\ Msg("error", tag, Val(raised).detail) \in ui
    /\ \A m \in ui \cup log :
          m.tag \in NonFatalTags => (raised # None /\ m \in ui /\ m \in log)
    /\ df # None => df = Some(ReadExcel(Val(uploaded_file)))
FailureFrame ==
    (raised = None /\ raised' # None) =>
        /\ uploaded_file' = uploaded_file
        /\ api_key' = api_key
        /\ keyFile' = keyFile
        /\ df' = df
        /\ questions' = questions

\* C9: every non-fatal error is both logged and shown (with its detail) and
\* no such message appears without an error; the step in which an upload
\* parse or an analyze fails changes neither the uploaded file, the table
\* nor the credential; the table is always the parse of the current upload.
\* (That a later analyze or upload can succeed is the witness.)
C9_ErrorsContained == [](ErrorsReported) /\ [][FailureFrame]_vars
C9_Witness ==
    /\ hadParseError
    /\ prevFailed
    /\ pc = "success"

AnalyzeEntered ==
    \/ pc \in {"sampling", "building", "awaiting", "success", "failed"}
    \/ df_sampled # None
    \/ prompt # None
    \/ requests > 0
    \/ response # None
ParsedThisRun ==
    /\ keyFile.kind = "ok"
    /\ api_key # None
    /\ uploaded_file # None
    /\ CanReadExcel(Val(uploaded_file))
    /\ df = Some(ReadExcel(Val(uploaded_file)))

\* C10: the analyze stages, a sample, a prompt or a request exist only in a
\* run whose credential load and whose parse of the current upload both
\* succeeded and whose button was pressed; the button is rendered only then;
\* and a spreadsheet parse error is reported only for an upload that cannot
\* be parsed, in a run that never reached the remote call.
C10_AnalyzeGuarded ==
    /\ AnalyzeEntered => (ParsedThisRun /\ button)
    /\ "button" \in shown => ParsedThisRun
    /\ (Shown("error", "excel_error") \/ Logged("excel_error")) =>
          /\ uploaded_file # None
          /\ ~CanReadExcel(Val(uploaded_file))
          /\ ~AnalyzeEntered
          /\ "button" \notin shown
C10_Witness ==
    /\ pc = "failed"
    /\ OpenAIError = "OpenAIError"
    /\ Val(raised).origin = "local"
    /\ Shown("error", "unexpected_error")

====
